---- MODULE Spec2Model ----
(***************************************************************************)
(* A model of setup.py of s2geometry: the packaging descriptor that        *)
(* formats the host interpreter's version into a CMake version range,      *)
(* assembles the CMake configure options of the one CMakeExtension and     *)
(* hands it to setuptools.setup, which drives the native build.            *)
(*                                                                         *)
(* Python strings are sequences of one-character strings, so that          *)
(* formatting (f-strings) and the reading back of what was formatted are   *)
(* different computations.                                                 *)
(***************************************************************************)
EXTENDS Integers, Sequences, FiniteSets, TLC

\* Bounds of the model: host versions 0.0 .. MaxMajor.MaxMinor, and the
\* number of package builds run against one output tree.
MaxMajor == 3
MaxMinor == 100
MaxRuns == 3

VARIABLES
    version_info,     \* sys.version_info of the running interpreter
    project_defined,  \* the source directory holds a CMake project definition
    PY_VERSION_MIN,   \* module globals of setup.py (<<>> until assigned)
    PY_VERSION_MAX,
    PY_VERSION,
    ext_modules,      \* the ext_modules argument of setuptools.setup
    pc,               \* position of the package build
    outcome,          \* what the native build toolchain reported
    invocations,      \* build steps run by the toolchain in this package build
    install_tree,     \* install entries in the package's output tree
    runs              \* package builds started against this output tree

vars == <<version_info, project_defined, PY_VERSION_MIN, PY_VERSION_MAX,
          PY_VERSION, ext_modules, pc, outcome, invocations, install_tree, runs>>

----------------------------------------------------------------------------
(* Formatting: f"{n}" of a non-negative int is its decimal representation. *)

DigitChars == <<"0","1","2","3","4","5","6","7","8","9">>

RECURSIVE Str(_)
Str(n) == IF n < 10 THEN <<DigitChars[n + 1]>>
          ELSE Str(n \div 10) \o <<DigitChars[(n % 10) + 1]>>

\* line 7: f"{sys.version_info.major}.{sys.version_info.minor}"
PyVersionMin(vi) == Str(vi.major) \o <<".">> \o Str(vi.minor)

\* mutants of line 8
PyVersionMaxSameMinor(vi) == Str(vi.major) \o <<".">> \o Str(vi.minor)
PyVersionMaxRollover(vi) ==
    IF vi.minor + 1 >= 100 THEN Str(vi.major + 1) \o <<".">> \o Str(0)
    ELSE Str(vi.major) \o <<".">> \o Str(vi.minor + 1)

\* line 8: f"{sys.version_info.major}.{sys.version_info.minor+1}"
PyVersionMax(vi) == Str(vi.major) \o <<".">> \o Str(vi.minor + 1)

\* mutants of line 9
PyVersionTwoDots(min, max) == min \o <<".",".","<">> \o max
PyVersionNoLt(min, max) == min \o <<".",".",".">> \o max

\* line 9: f"{PY_VERSION_MIN}...<{PY_VERSION_MAX}"
PyVersion(min, max) == min \o <<".",".",".","<">> \o max

----------------------------------------------------------------------------
(* The CMakeExtension of lines 13-34.                                      *)

OptLookupVersion ==
    <<"-","D","P","y","t","h","o","n","_","L","O","O","K","U","P","_","V","E","R","S","I","O","N","=">>
OptFindVirtualenv ==
    <<"-","D","P","y","t","h","o","n","3","_","F","I","N","D","_","V","I","R","T","U","A","L","E","N","V",":","B","O","O","L","=","O","N">>
OptFindStrategy ==
    <<"-","D","P","y","t","h","o","n","3","_","F","I","N","D","_","S","T","R","A","T","E","G","Y","=","L","O","C","A","T","I","O","N">>
OptCallFromSetupPy ==
    <<"-","D","C","A","L","L","_","F","R","O","M","_","S","E","T","U","P","_","P","Y",":","B","O","O","L","=","O","N">>
OptSharedLibs ==
    <<"-","D","B","U","I","L","D","_","S","H","A","R","E","D","_","L","I","B","S",":","B","O","O","L","=","O","F","F">>
OptCxxStandard ==
    <<"-","D","C","M","A","K","E","_","C","X","X","_","S","T","A","N","D","A","R","D","=","1","7">>
OptPic ==
    <<"-","D","C","M","A","K","E","_","P","O","S","I","T","I","O","N","_","I","N","D","E","P","E","N","D","E","N","T","_","C","O","D","E","=","O","N">>
OptTests ==
    <<"-","D","B","U","I","L","D","_","T","E","S","T","S","=","O","F","F">>
OptWithPython ==
    <<"-","D","W","I","T","H","_","P","Y","T","H","O","N","=","O","N">>

\* mutants of the option list
OptSharedLibsOn ==
    <<"-","D","B","U","I","L","D","_","S","H","A","R","E","D","_","L","I","B","S",":","B","O","O","L","=","O","N">>
OptionsSharedOn(pyver) ==
    << OptLookupVersion \o pyver, OptFindVirtualenv, OptFindStrategy,
       OptCallFromSetupPy, OptSharedLibsOn, OptCxxStandard, OptPic, OptTests,
       OptWithPython >>
OptionsSwapped(pyver) ==
    << OptLookupVersion \o pyver, OptFindVirtualenv, OptFindStrategy,
       OptCallFromSetupPy, OptSharedLibs, OptCxxStandard, OptPic,
       OptWithPython, OptTests >>

\* lines 21-33: cmake_configure_options
CmakeConfigureOptions(pyver) ==
    << OptLookupVersion \o pyver, OptFindVirtualenv, OptFindStrategy,
       OptCallFromSetupPy, OptSharedLibs, OptCxxStandard, OptPic, OptTests,
       OptWithPython >>

\* line 20: str(Path(__file__).parent.absolute())
SourceDir == "dir-of-setup.py"

\* line 15 and line 17
ExtensionName == "SwigBindings"
InstallPrefix == "s2geometry"

\* lines 13-34: one CMakeExtension
CMakeExtension(pyver) ==
    [ name |-> ExtensionName,
      install_prefix |-> InstallPrefix,
      source_dir |-> SourceDir,
      cmake_configure_options |-> CmakeConfigureOptions(pyver) ]

\* mutants of the ext_modules list
ExtModulesTwice(pyver) == << CMakeExtension(pyver), CMakeExtension(pyver) >>
ExtModulesPerRun(pyver) ==
    << [ CMakeExtension(pyver) EXCEPT
           !.install_prefix = IF runs = 1 THEN InstallPrefix ELSE "s2geometry-new" ] >>

\* lines 12-35: ext_modules=[ ... ]
ExtModules(pyver) == << CMakeExtension(pyver) >>

----------------------------------------------------------------------------
(* The native build toolchain behind cmake_build_extension.BuildExtension: *)
(* an external collaborator, modelled by its contract.                     *)

Failures == {"compiler_error", "missing_source_dir", "interpreter_not_found",
             "toolchain_missing", "nonzero_exit"}

\* What one run of the toolchain on a source directory can report: without
\* a project definition in the source directory it cannot succeed.
ToolchainOutcomes(defined) ==
    IF defined THEN {"ok"} \cup (Failures \ {"missing_source_dir"})
    ELSE Failures

\* The install entry a successful build of an extension leaves behind.
Artifact(ext) == [ prefix |-> ext.install_prefix, target |-> ext.name ]

Min(S) == CHOOSE x \in S : \A y \in S : x <= y

\* build_ext: the registered extensions are built in order, one toolchain
\* run each; the first failure aborts the whole build.
BuildExt(exts, outs) ==
    LET bad   == { i \in 1..Len(exts) : outs[i] # "ok" }
        first == IF bad = {} THEN Len(exts) + 1 ELSE Min(bad)
    IN  [ invocations |-> IF bad = {} THEN Len(exts) ELSE first,
          installed   |-> { Artifact(exts[i]) : i \in 1..(first - 1) },
          outcome     |-> IF bad = {} THEN "ok" ELSE outs[first] ]

\* mutant of the exit of setup.py: a failure of setup() is swallowed
ExitSwallow(o) == "succeeded"

\* lines 11-40: setup() is called bare, so what it raises ends the process
\* with a failure and what it returns ends it with success.
ExitState(o) == IF o = "ok" THEN "succeeded" ELSE "failed"

----------------------------------------------------------------------------
(* The package build.                                                      *)

Init ==
    /\ version_info \in [major : 0..MaxMajor, minor : 0..MaxMinor]
    /\ project_defined \in BOOLEAN
    /\ PY_VERSION_MIN = <<>>
    /\ PY_VERSION_MAX = <<>>
    /\ PY_VERSION = <<>>
    /\ ext_modules = <<>>
    /\ pc = "loaded"
    /\ outcome = "none"
    /\ invocations = 0
    /\ install_tree = {}
    /\ runs = 1

\* line 7
ComputeMin ==
    /\ pc = "loaded"
    /\ PY_VERSION_MIN' = PyVersionMin(version_info)
    /\ pc' = "version_resolved"
    /\ UNCHANGED <<version_info, project_defined, PY_VERSION_MAX, PY_VERSION,
                   ext_modules, outcome, invocations, install_tree, runs>>

\* line 8
ComputeMax ==
    /\ pc = "version_resolved"
    /\ PY_VERSION_MAX' = PyVersionMax(version_info)
    /\ pc' = "max_computed"
    /\ UNCHANGED <<version_info, project_defined, PY_VERSION_MIN, PY_VERSION,
                   ext_modules, outcome, invocations, install_tree, runs>>

\* line 9
ComputeRange ==
    /\ pc = "max_computed"
    /\ PY_VERSION' = PyVersion(PY_VERSION_MIN, PY_VERSION_MAX)
    /\ pc' = "range_computed"
    /\ UNCHANGED <<version_info, project_defined, PY_VERSION_MIN, PY_VERSION_MAX,
                   ext_modules, outcome, invocations, install_tree, runs>>

\* lines 12-39: the arguments of setup() are evaluated before the call
BuildDescriptor ==
    /\ pc = "range_computed"
    /\ ext_modules' = ExtModules(PY_VERSION)
    /\ pc' = "configured"
    /\ UNCHANGED <<version_info, project_defined, PY_VERSION_MIN, PY_VERSION_MAX,
                   PY_VERSION, outcome, invocations, install_tree, runs>>

\* line 11: setuptools.setup(...) runs build_ext and blocks until it ends
Setup ==
    /\ pc = "configured"
    /\ \E outs \in [1..Len(ext_modules) -> ToolchainOutcomes(project_defined)] :
         LET r == BuildExt(ext_modules, outs) IN
           /\ outcome' = r.outcome
           /\ invocations' = invocations + r.invocations
           /\ install_tree' = install_tree \cup r.installed
    /\ pc' = "invoked"
    /\ UNCHANGED <<version_info, project_defined, PY_VERSION_MIN, PY_VERSION_MAX,
                   PY_VERSION, ext_modules, runs>>

\* line 40: the end of the script, or the exception leaving it
Exit ==
    /\ pc = "invoked"
    /\ pc' = ExitState(outcome)
    /\ UNCHANGED <<version_info, project_defined, PY_VERSION_MIN, PY_VERSION_MAX,
                   PY_VERSION, ext_modules, outcome, invocations, install_tree, runs>>

\* The package build is run again on the same host, source tree and output
\* tree: a fresh process, so the module globals start unassigned.
Rerun ==
    /\ pc \in {"succeeded", "failed"}
    /\ runs < MaxRuns
    /\ runs' = runs + 1
    /\ PY_VERSION_MIN' = <<>>
    /\ PY_VERSION_MAX' = <<>>
    /\ PY_VERSION' = <<>>
    /\ ext_modules' = <<>>
    /\ pc' = "loaded"
    /\ outcome' = "none"
    /\ invocations' = 0
    /\ UNCHANGED <<version_info, project_defined, install_tree>>

Next == ComputeMin \/ ComputeMax \/ ComputeRange \/ BuildDescriptor \/ Setup \/ Exit

Spec == Init /\ [][Next]_vars

NextRerun == Next \/ Rerun

SpecRerun == Init /\ [][NextRerun]_vars

----------------------------------------------------------------------------
(* Reading back what setup.py formatted: decimals, versions, the CMake     *)
(* version range "<min>...[<]<max>" and "-D<name>[:<type>]=<value>".       *)

IsDigit(c) == \E d \in 0..9 : DigitChars[d + 1] = c
DigitValue(c) == CHOOSE d \in 0..9 : DigitChars[d + 1] = c

\* a decimal as f"{n}" writes it: digits only, no leading zero
IsDecimal(s) ==
    /\ Len(s) > 0
    /\ \A i \in 1..Len(s) : IsDigit(s[i])
    /\ (Len(s) > 1 => s[1] # "0")

RECURSIVE ParseNat(_)
ParseNat(s) == IF Len(s) = 0 THEN 0
               ELSE ParseNat(SubSeq(s, 1, Len(s) - 1)) * 10 + DigitValue(s[Len(s)])

\* first position of character c in s, 0 when absent
IndexOf(s, c) == IF \E i \in 1..Len(s) : s[i] = c
                 THEN Min({ i \in 1..Len(s) : s[i] = c })
                 ELSE 0

IsVersion(s) ==
    LET d == IndexOf(s, ".") IN
    /\ d > 0
    /\ IsDecimal(SubSeq(s, 1, d - 1))
    /\ IsDecimal(SubSeq(s, d + 1, Len(s)))

ParseVersion(s) ==
    LET d == IndexOf(s, ".") IN
    [ major |-> ParseNat(SubSeq(s, 1, d - 1)),
      minor |-> ParseNat(SubSeq(s, d + 1, Len(s))) ]

\* positions where the range separator "..." starts
SepStarts(s) == { i \in 1..(Len(s) - 2) : s[i] = "." /\ s[i + 1] = "." /\ s[i + 2] = "." }

IsRange(s) ==
    /\ SepStarts(s) # {}
    /\ LET i    == Min(SepStarts(s))
           rest == SubSeq(s, i + 3, Len(s))
       IN  /\ IsVersion(SubSeq(s, 1, i - 1))
           /\ Len(rest) > 0
           /\ IsVersion(IF rest[1] = "<" THEN Tail(rest) ELSE rest)

ParseRange(s) ==
    LET i    == Min(SepStarts(s))
        rest == SubSeq(s, i + 3, Len(s))
    IN  [ lower     |-> ParseVersion(SubSeq(s, 1, i - 1)),
          exclusive |-> rest[1] = "<",
          upper     |-> ParseVersion(IF rest[1] = "<" THEN Tail(rest) ELSE rest) ]

VersionLess(a, b) == a.major < b.major \/ (a.major = b.major /\ a.minor < b.minor)

\* a candidate interpreter version lies in a parsed range
InRange(v, r) ==
    /\ ~VersionLess(v, r.lower)
    /\ IF r.exclusive THEN VersionLess(v, r.upper) ELSE ~VersionLess(r.upper, v)

IsOption(o) ==
    /\ Len(o) > 2 /\ o[1] = "-" /\ o[2] = "D"
    /\ IndexOf(o, "=") > 3

OptionName(o) ==
    LET e == IndexOf(o, "=")
        t == IndexOf(o, ":")
    IN  SubSeq(o, 3, (IF t > 0 /\ t < e THEN t ELSE e) - 1)

OptionValue(o) == SubSeq(o, IndexOf(o, "=") + 1, Len(o))

Candidates == [major : 0..(MaxMajor + 1), minor : 0..(MaxMinor + 2)]

\* the option list setup() was handed
Options == ext_modules[1].cmake_configure_options

Terminal == {"succeeded", "failed"}

----------------------------------------------------------------------------
(* The claims.                                                             *)

\* C1 as stated: the version-range string is min, then the three characters
\* "...", then max, with min = "<major>.<minor>" and max =
\* "<major>.<minor+1>" in decimal and nothing else in the string.
C1_ThreeDotsOnly ==
    PY_VERSION # <<>> =>
        /\ IsVersion(PY_VERSION_MIN) /\ ParseVersion(PY_VERSION_MIN) = version_info
        /\ IsVersion(PY_VERSION_MAX)
        /\ ParseVersion(PY_VERSION_MAX) =
             [major |-> version_info.major, minor |-> version_info.minor + 1]
        /\ PY_VERSION = PY_VERSION_MIN \o <<".", ".", ".">> \o PY_VERSION_MAX

\* C1 amended: the version-range string is min, then the four characters
\* "...<", then max, with min = "<major>.<minor>" and max =
\* "<major>.<minor+1>" in decimal and nothing else in the string.
C1_RangeString ==
    PY_VERSION # <<>> =>
        /\ IsVersion(PY_VERSION_MIN) /\ ParseVersion(PY_VERSION_MIN) = version_info
        /\ IsVersion(PY_VERSION_MAX)
        /\ ParseVersion(PY_VERSION_MAX) =
             [major |-> version_info.major, minor |-> version_info.minor + 1]
        /\ Len(PY_VERSION) = Len(PY_VERSION_MIN) + 4 + Len(PY_VERSION_MAX)
        /\ SubSeq(PY_VERSION, 1, Len(PY_VERSION_MIN)) = PY_VERSION_MIN
        /\ SubSeq(PY_VERSION, Len(PY_VERSION_MIN) + 1, Len(PY_VERSION_MIN) + 4)
             = <<".", ".", ".", "<">>
        /\ SubSeq(PY_VERSION, Len(PY_VERSION_MIN) + 5, Len(PY_VERSION)) = PY_VERSION_MAX

\* a host whose minor + 1 has one more digit than its minor
C1_Witness == PY_VERSION # <<>> /\ version_info.minor = 9 /\ version_info.major = 3

\* C2 as stated: for host (3, 11) the version-range string, forwarded in the
\* first configure option, is "3.11...<3.12>".
C2_TrailingBracket ==
    (version_info = [major |-> 3, minor |-> 11] /\ ext_modules # <<>>) =>
        /\ PY_VERSION = <<"3",".","1","1",".",".",".","<","3",".","1","2",">">>
        /\ OptionValue(Options[1]) = PY_VERSION

\* C2 amended: for host (3, 11) the version-range string is "3.11...<3.12"
\* and the first configure option is "-DPython_LOOKUP_VERSION=3.11...<3.12".
C2_Literal ==
    (version_info = [major |-> 3, minor |-> 11] /\ ext_modules # <<>>) =>
        /\ PY_VERSION = <<"3",".","1","1",".",".",".","<","3",".","1","2">>
        /\ Options[1] =
             <<"-","D","P","y","t","h","o","n","_","L","O","O","K","U","P","_",
               "V","E","R","S","I","O","N","=",
               "3",".","1","1",".",".",".","<","3",".","1","2">>

C2_Witness == version_info = [major |-> 3, minor |-> 11] /\ pc = "configured"

ExpectedNames ==
    << <<"P","y","t","h","o","n","_","L","O","O","K","U","P","_","V","E","R","S","I","O","N">>,
       <<"P","y","t","h","o","n","3","_","F","I","N","D","_","V","I","R","T","U","A","L","E","N","V">>,
       <<"P","y","t","h","o","n","3","_","F","I","N","D","_","S","T","R","A","T","E","G","Y">>,
       <<"C","A","L","L","_","F","R","O","M","_","S","E","T","U","P","_","P","Y">>,
       <<"B","U","I","L","D","_","S","H","A","R","E","D","_","L","I","B","S">>,
       <<"C","M","A","K","E","_","C","X","X","_","S","T","A","N","D","A","R","D">>,
       <<"C","M","A","K","E","_","P","O","S","I","T","I","O","N","_","I","N","D","E","P","E","N","D","E","N","T","_","C","O","D","E">>,
       <<"B","U","I","L","D","_","T","E","S","T","S">>,
       <<"W","I","T","H","_","P","Y","T","H","O","N">> >>

\* the fixed values of §4.1, rows 2 to 9 (row 1 is the version range)
ExpectedValues ==
    << <<>>, <<"O","N">>, <<"L","O","C","A","T","I","O","N">>, <<"O","N">>,
       <<"O","F","F">>, <<"1","7">>, <<"O","N">>, <<"O","F","F">>, <<"O","N">> >>

\* C3: the option list has exactly nine entries, the rows of the options
\* table in the table's order, for every host version and environment; only
\* the value of the first entry (the version range) varies with the host.
C3_NineOptions ==
    ext_modules # <<>> =>
        /\ Len(Options) = Len(ExpectedNames)
        /\ \A i \in 1..Len(Options) :
             /\ IsOption(Options[i])
             /\ OptionName(Options[i]) = ExpectedNames[i]
             /\ OptionValue(Options[i]) = IF i = 1 THEN PY_VERSION ELSE ExpectedValues[i]

C3_Witness ==
    /\ pc = "configured" /\ ~project_defined
    /\ version_info = [major |-> 2, minor |-> 7]
    /\ Len(Options) > 8

\* C4: in every invocation the option list sets BUILD_SHARED_LIBS to OFF and
\* CMAKE_POSITION_INDEPENDENT_CODE to ON, and no entry sets either option to
\* another value, whatever the host version.
C4_StaticPic ==
    ext_modules # <<>> =>
        \A x \in 1..Len(ext_modules) :
          LET opts == ext_modules[x].cmake_configure_options IN
            /\ \E i \in 1..Len(opts) :
                 OptionName(opts[i]) = ExpectedNames[5] /\ OptionValue(opts[i]) = <<"O","F","F">>
            /\ \E i \in 1..Len(opts) :
                 OptionName(opts[i]) = ExpectedNames[7] /\ OptionValue(opts[i]) = <<"O","N">>
            /\ \A i \in 1..Len(opts) :
                 /\ OptionName(opts[i]) = ExpectedNames[5] => OptionValue(opts[i]) = <<"O","F","F">>
                 /\ OptionName(opts[i]) = ExpectedNames[7] => OptionValue(opts[i]) = <<"O","N">>

C4_Witness == pc = "invoked" /\ invocations = 1 /\ version_info.minor = 12

\* C5: the steps of one package build happen in the order resolve version,
\* compute the range string, build the option list, invoke the toolchain,
\* exit; one extension target is registered and the toolchain is invoked
\* exactly once per package build, never again after a failure.
C5_OnceInOrder ==
    /\ (PY_VERSION_MAX # <<>> => PY_VERSION_MIN # <<>>)
    /\ (PY_VERSION # <<>> => PY_VERSION_MAX # <<>>)
    /\ (ext_modules # <<>> => PY_VERSION # <<>> /\ Len(ext_modules) = 1)
    /\ (invocations > 0 => ext_modules # <<>>)
    /\ (outcome # "none" <=> invocations > 0)
    /\ (pc \in Terminal \cup {"invoked"} <=> invocations > 0)
    /\ invocations <= 1
    /\ (pc \in Terminal => invocations = 1)

C5_Witness == pc = "failed" /\ invocations = 1 /\ outcome = "compiler_error"

\* C6: when the source directory has no native-project definition the build
\* fails before any artifact is produced: the build ends failed and no
\* artifact of the target exists under the install prefix "s2geometry".
C6_NoProjectFails ==
    (~project_defined /\ invocations > 0) =>
        /\ outcome \in Failures
        /\ pc # "succeeded"
        /\ \A e \in install_tree : e.prefix # "s2geometry"

C6_Witness == ~project_defined /\ pc = "failed" /\ outcome = "missing_source_dir"

\* C7: repeated successful runs against an unchanged source tree and
\* unchanged options leave exactly one install entry for the target under
\* "s2geometry", the same as after the first run.
C7_Idempotent ==
    /\ (pc = "succeeded" =>
          install_tree = { [prefix |-> "s2geometry", target |-> "SwigBindings"] })
    /\ Cardinality(install_tree) <= 1

C7_Witness == runs >= 2 /\ pc = "succeeded" /\ Cardinality(install_tree) = 1

\* C8: the upper bound of the range has the lower bound's major component
\* and the lower bound's minor component plus one; there is no rollover to
\* the next major version (minor 99 gives "<major>.100").
C8_NoRollover ==
    PY_VERSION # <<>> =>
        /\ IsRange(PY_VERSION)
        /\ LET r == ParseRange(PY_VERSION) IN
             /\ r.lower = version_info
             /\ r.upper.major = r.lower.major
             /\ r.upper.minor = r.lower.minor + 1
        /\ ParseVersion(PY_VERSION_MAX).major = ParseVersion(PY_VERSION_MIN).major
        /\ ParseVersion(PY_VERSION_MAX).minor = ParseVersion(PY_VERSION_MIN).minor + 1

C8_Witness ==
    /\ version_info = [major |-> 3, minor |-> 99]
    /\ PY_VERSION_MAX = <<"3", ".", "1", "0", "0">>
    /\ PY_VERSION # <<>>

\* C9: the range forwarded as the first option admits exactly the running
\* minor version: a candidate (M, m) lies in it, lower bound inclusive and
\* upper bound exclusive, if and only if M = major and m = minor.
C9_ExactMinor ==
    ext_modules # <<>> =>
        /\ IsRange(OptionValue(Options[1]))
        /\ LET r == ParseRange(OptionValue(Options[1])) IN
             /\ r.exclusive
             /\ \A v \in Candidates : InRange(v, r) <=> v = version_info

C9_Witness == ext_modules # <<>> /\ version_info = [major |-> 3, minor |-> 10]

C10_State ==
    /\ pc \in {"loaded", "version_resolved", "max_computed", "range_computed",
               "configured", "invoked", "succeeded", "failed"}
    /\ (pc = "succeeded" =>
          /\ outcome = "ok"
          /\ \E e \in install_tree : e.prefix = "s2geometry")
    /\ (pc = "failed" =>
          /\ outcome \in Failures
          /\ \A e \in install_tree : e.prefix # "s2geometry")

C10_Step ==
    /\ (pc = "configured" => pc' = "invoked")
    /\ (pc = "invoked" /\ outcome \in Failures => pc' = "failed")
    /\ (pc = "invoked" /\ outcome = "ok" => pc' = "succeeded")
    /\ (pc \in Terminal => pc' = pc)
    /\ invocations' >= invocations

\* C10: a package build follows the one path configured -> invoked ->
\* (artifact present | failed): every toolchain failure ends the build
\* failed with no recovery step, and the build is never reported succeeded
\* without the artifact nor failed with the target's artifact installed.
C10_LinearPath == []C10_State /\ [][C10_Step]_vars

C10_Witness == pc = "failed" /\ outcome = "interpreter_not_found" /\ project_defined

====
